---- MODULE Spec2Model ----
(***************************************************************************)
(* Model of the polling engine of cf2.py / cfpandw.py:                     *)
(*   ConfigManager  - the ordered account list (registry)                  *)
(*   CFAPIClient    - get_account_id, query_usage_single, the worker pool, *)
(*                    update_all_accounts, update_single_account and the   *)
(*                    shared snapshot (data, last_update)                  *)
(*   RefreshThread  - the scheduler loop                                   *)
(*   MainWindow     - the UI-thread handlers that drive the above          *)
(* An account_info passed to query_usage_single is a reference to a dict   *)
(* of the registry list: a call that has not read its fields yet holds the *)
(* dict's current index (ref), or the dict's content once the registry no  *)
(* longer holds that dict.                                                 *)
(***************************************************************************)
EXTENDS Integers, Sequences, FiniteSets, TLC

\* ---------------------------------------------------------------- bounds
MaxAccounts == 2
TickHours == 12
MaxTime == 24
IntervalTicks == 2
PoolAccounts == 6

\* ------------------------------------------------------ program constants
MAX_WORKERS == 5
CACHE_EXPIRE_HOURS == 24
DEFAULT_REQUEST_LIMIT == 200000

\* ------------------------------------------------------------ value sets
Names == {"A", "B"}
Threads == {"sched", "ui"}
NoneVal == "<None>"
NoTime == -1
BadTime == -2
RemoteIds == {"rid"}

VARIABLES
    accounts,      \* ConfigManager.config["accounts"]
    data,          \* CFAPIClient.data
    last_update,   \* CFAPIClient.last_update
    mutex,         \* CFAPIClient.mutex: "free" or the holding thread
    tasks,         \* running/queued calls of query_usage_single, by task id
    pc,            \* position of the scheduler thread and of the UI thread
    ra,            \* locals of update_all_accounts, per calling thread
    sa,            \* locals of update_single_account / RefreshThread.run
    is_running,    \* RefreshThread.is_running
    target_account,\* RefreshThread.target_account
    ticks,         \* iterations done by the wait loop of RefreshThread.run
    event,         \* the last signal emitted by RefreshThread
    seen,          \* the copy of data taken by send_at_custom_time
    now,           \* wall clock, in hours
    settings,      \* ConfigManager.config without "accounts"
    db,            \* cf_monitor.db: the config and accounts tables
    json_file,     \* cf_monitor_config.json
    pending,       \* threads started and not yet run: save_config, save_json
    saver          \* locals of the save_config call running on the save thread

vars == <<accounts, data, last_update, mutex, tasks, pc, ra, sa,
          is_running, target_account, ticks, event, seen, now,
          settings, db, json_file, pending, saver>>

\* --------------------------------------------------------------- helpers
EmptyMap == [n \in {} |-> 0]

\* dict.update / d[k] = v
Put(m, k, v) == [x \in (DOMAIN m) \cup {k} |-> IF x = k THEN v ELSE m[x]]

Update(m, r) == [x \in (DOMAIN m) \cup (DOMAIN r) |-> IF x \in DOMAIN r THEN r[x] ELSE m[x]]

RemoveAt(s, i) == [j \in 1..(Len(s) - 1) |-> IF j < i THEN s[j] ELSE s[j + 1]]

RegistryNames == {accounts[i].name : i \in DOMAIN accounts}

\* ---------------------------------------------------------- UsageResult
\* the "data" dicts built by query_usage_single
ErrorData(msg) ==
    [shape |-> "error", requests |-> 0, pages |-> 0, workers |-> 0,
     account_id |-> "", error |-> msg]

UsageData(p, w, id) ==
    [shape |-> "usage", requests |-> p + w, pages |-> p, workers |-> w,
     account_id |-> id, error |-> ""]

\* the {} default of data.get(name, {})
EmptyDict ==
    [shape |-> "empty", requests |-> 0, pages |-> 0, workers |-> 0,
     account_id |-> "", error |-> ""]

NoData ==
    [shape |-> "none", requests |-> 0, pages |-> 0, workers |-> 0,
     account_id |-> "", error |-> ""]

\* ------------------------------------------------------------- accounts
AccountDict(info, cache_id, cache_time) ==
    [name |-> info.name, email |-> info.email, key |-> info.key,
     api_token |-> info.api_token, account_id |-> info.account_id,
     account_id_cache |-> cache_id, cache_update_time |-> cache_time]

NullAcct ==
    [name |-> "", email |-> "", key |-> "", api_token |-> "", account_id |-> "",
     account_id_cache |-> "", cache_update_time |-> NoTime]

\* ------------------------------------------------------ persisted config
\* ConfigManager.__init__: the proxy of a new config
DefaultProxy ==
    [enable |-> FALSE, type |-> "http", host |-> "", port |-> "",
     username |-> "", password |-> ""]

\* a proxy as SettingsDialog.save_settings builds it
DialogProxy ==
    [enable |-> TRUE, type |-> "socks5", host |-> "h", port |-> "1080",
     username |-> "", password |-> ""]

\* ConfigManager.__init__: the config without its accounts
DefaultSettings ==
    [proxy |-> DefaultProxy, refresh_interval |-> 300,
     request_limit |-> DEFAULT_REQUEST_LIMIT]

\* what SettingsDialog.save_settings can store
SettingsInputs ==
    {DefaultSettings,
     [proxy |-> DialogProxy, refresh_interval |-> 60, request_limit |-> 100000]}

\* json.dumps / json.loads and str / int of the values of the config table
JsonDumps(v) == [json |-> v]

JsonLoads(t) == t.json

StrOf(n) == [str |-> n]

IntOf(t) == t.str

ConfigKeys == {"proxy", "refresh_interval", "request_limit"}

\* the three rows save_config and _migrate_to_db write to the config table
ConfigRows(s) ==
    [k \in ConfigKeys |->
        CASE k = "proxy" -> JsonDumps(s.proxy)
          [] k = "refresh_interval" -> StrOf(s.refresh_interval)
          [] OTHER -> StrOf(s.request_limit)]

\* load_config lines 107-117: the settings read from the config table
SettingsFromRows(rows, s) ==
    IF rows = EmptyMap THEN s
    ELSE [proxy |-> IF "proxy" \in DOMAIN rows
                    THEN JsonLoads(rows["proxy"]) ELSE s.proxy,
          refresh_interval |-> IF "refresh_interval" \in DOMAIN rows
                               THEN IntOf(rows["refresh_interval"])
                               ELSE s.refresh_interval,
          request_limit |-> IF "request_limit" \in DOMAIN rows
                            THEN IntOf(rows["request_limit"])
                            ELSE s.request_limit]

\* the parameter tuple of one INSERT INTO accounts
RowOf(acc) ==
    <<acc.name, acc.email, acc.key, acc.api_token, acc.account_id,
      acc.account_id_cache, acc.cache_update_time>>

RowsOf(accs) == [i \in 1..Len(accs) |-> RowOf(accs[i])]

\* load_config lines 123-133: the dict built from one row of accounts
DictOf(row) ==
    [name |-> row[1], email |-> row[2], key |-> row[3], api_token |-> row[4],
     account_id |-> row[5], account_id_cache |-> row[6],
     cache_update_time |-> row[7]]

DictsOf(rows) == [i \in 1..Len(rows) |-> DictOf(rows[i])]

\* name TEXT NOT NULL UNIQUE: the rows can all be inserted
NamesUnique(rows) ==
    \A i, j \in 1..Len(rows) : i # j => rows[i][1] # rows[j][1]

\* executemany INSERT INTO accounts, each statement committed on its own
\* (isolation_level = None): the rows before the first one whose name is
\* already in the table stay inserted, that row raises IntegrityError
InsertRows(rows) ==
    LET bad == {i \in 1..Len(rows) : \E j \in 1..(i - 1) : rows[j][1] = rows[i][1]}
    IN  IF bad = {} THEN rows
        ELSE SubSeq(rows, 1, (CHOOSE i \in bad : \A j \in bad : i <= j) - 1)

\* INSERT OR REPLACE INTO accounts: a row whose name is in the table replaces
\* that row and gets a new rowid
RECURSIVE InsertOrReplaceRows(_, _)
InsertOrReplaceRows(table, rows) ==
    IF rows = <<>> THEN table
    ELSE LET Other(r) == r[1] # Head(rows)[1]
         IN  InsertOrReplaceRows(Append(SelectSeq(table, Other), Head(rows)), Tail(rows))

\* the tables after the SQLite part of save_config, lines 200-236
SavedDb(s, accs) == [config |-> ConfigRows(s), accounts |-> InsertRows(RowsOf(accs))]

\* the tables after _migrate_to_db, lines 161-191
MigratedDb(s, accs) ==
    [config |-> ConfigRows(s), accounts |-> InsertOrReplaceRows(<<>>, RowsOf(accs))]

EmptyDb == [config |-> EmptyMap, accounts |-> <<>>]

\* the content of cf_monitor_config.json
JsonDoc(s, accs) ==
    [state |-> "ok", accounts |-> accs, proxy |-> s.proxy,
     refresh_interval |-> s.refresh_interval, request_limit |-> s.request_limit]

NoFile == [JsonDoc(DefaultSettings, <<>>) EXCEPT !.state = "missing"]

CorruptFile == [JsonDoc(DefaultSettings, <<>>) EXCEPT !.state = "corrupt"]

NoThreads == [save |-> FALSE, json |-> FALSE]

\* no save_config call is running on a thread of its own: the mutex of
\* ConfigManager is free
NoSaver == [st |-> "idle", i |-> 0, rows |-> <<>>, start |-> <<>>]

\* ConfigManager.save_config called with the config (s, accs), pend the
\* threads pending before the call: with the mutex taken, the tables are
\* rewritten; save_json is started unless the SQLite part raised
SaveConfig(s, accs, pend) ==
    /\ saver.st = "idle"
    /\ db' = IF pc["ui"] = "down" THEN db ELSE SavedDb(s, accs)
    /\ pending' = [pend EXCEPT !.json = @ \/ pc["ui"] = "down" \/ NamesUnique(RowsOf(accs))]

\* what save_config returns to its caller, raised: the SQLite part raised; the
\* function has no return statement and its except branch only prints
SaveConfigReturn(raised) == NoneVal

\* ------------------------------------------------- IdentifierResolver TTL
\* variant: the age in seconds is compared with the number of hours
CacheValidHoursAsSeconds(cache_id, cache_time, t) ==
    /\ cache_id # ""
    /\ cache_time # NoTime
    /\ cache_time # BadTime
    /\ (t - cache_time) * 3600 < CACHE_EXPIRE_HOURS

\* get_account_id, the cache test: cache_id truthy, cache_time truthy and
\* parsable, (now - cache_dt).total_seconds() < CACHE_EXPIRE_HOURS * 3600
CacheValid(cache_id, cache_time, t) ==
    /\ cache_id # ""
    /\ cache_time # NoTime
    /\ cache_time # BadTime
    /\ (t - cache_time) * 3600 < CACHE_EXPIRE_HOURS * 3600

\* ------------------------------------------------------------ remote API
ResolveOutcomes == {"fail"} \cup RemoteIds

UsageResponses == {[pages |-> <<1>>, workers |-> <<2, 3>>]}

UsageFailures == {"http", "errors", "empty"}

RECURSIVE SumSeq(_)
SumSeq(s) == IF s = <<>> THEN 0 ELSE Head(s) + SumSeq(Tail(s))

UsageErrorMessage(out) ==
    CASE out = "http" -> "http error"
      [] out = "errors" -> "GraphQL error: rate limited"
      [] OTHER -> "no usage data"

\* ---------------------------------------------------- query_usage_single
InlineTask == <<"sched", 0>>

NewTask(ref, st) ==
    [st |-> st, ref |-> ref, acct |-> NullAcct,
     name |-> "", email |-> "", key |-> "", api_token |-> "",
     account_id |-> "", cache_id |-> "", cache_time |-> NoTime, acc_index |-> 0,
     calls |-> 0, data |-> NoData]

\* the account_info dict of a call that has not read it yet
TaskAccount(f) == IF tasks[f].ref # 0 THEN accounts[tasks[f].ref] ELSE tasks[f].acct

Unread(tsk, f) == tsk[f].st \in {"queued", "start"}

\* del accounts[i]: the dict leaves the list, later dicts move down
TasksAfterDelete(i) ==
    [f \in DOMAIN tasks |->
        IF Unread(tasks, f) /\ tasks[f].ref = i
        THEN [tasks[f] EXCEPT !.ref = 0, !.acct = accounts[i]]
        ELSE IF Unread(tasks, f) /\ tasks[f].ref > i
             THEN [tasks[f] EXCEPT !.ref = @ - 1]
             ELSE tasks[f]]

\* accounts[i] = new dict: the old dict leaves the list
TasksAfterReplace(i) ==
    [f \in DOMAIN tasks |->
        IF Unread(tasks, f) /\ tasks[f].ref = i
        THEN [tasks[f] EXCEPT !.ref = 0, !.acct = accounts[i]]
        ELSE tasks[f]]

InFlightStages == {"resolve", "lookup", "cachewrite", "usage"}

\* calls of query_usage_single the pool's worker threads are executing
InFlight == {f \in DOMAIN tasks : f[2] # 0 /\ tasks[f].st \in InFlightStages}

\* variant: a pool without a limit on its worker threads
UnboundedPool == TRUE

\* ThreadPoolExecutor(max_workers=MAX_WORKERS): a queued work item starts
\* only on a free worker thread
WorkerAvailable == Cardinality(InFlight) < MAX_WORKERS

\* variant: the id is resolved whether or not account_id is set
TaskBeginAlwaysResolve(f) ==
    /\ f \in DOMAIN tasks
    /\ \/ tasks[f].st = "start"
       \/ tasks[f].st = "queued" /\ WorkerAvailable
    /\ LET a == TaskAccount(f)
           t1 == [tasks[f] EXCEPT !.ref = 0, !.acct = NullAcct,
                                  !.name = a.name, !.email = a.email,
                                  !.key = a.key, !.api_token = a.api_token,
                                  !.account_id = a.account_id,
                                  !.cache_id = a.account_id_cache,
                                  !.cache_time = a.cache_update_time]
       IN  tasks' = [tasks EXCEPT ![f] =
                  IF ~(a.email # "" /\ a.key # "") /\ a.api_token = ""
                  THEN [t1 EXCEPT !.st = "done", !.data = ErrorData("no credentials")]
                  ELSE [t1 EXCEPT !.st = "resolve"]]
    /\ UNCHANGED <<accounts, data, last_update, mutex, pc, ra, sa, is_running, target_account, ticks, event, seen, now, settings, db, json_file, pending, saver>>

\* variant: the credentials are not validated
TaskBeginNoCredentialCheck(f) ==
    /\ f \in DOMAIN tasks
    /\ \/ tasks[f].st = "start"
       \/ tasks[f].st = "queued" /\ WorkerAvailable
    /\ LET a == TaskAccount(f)
           t1 == [tasks[f] EXCEPT !.ref = 0, !.acct = NullAcct,
                                  !.name = a.name, !.email = a.email,
                                  !.key = a.key, !.api_token = a.api_token,
                                  !.account_id = a.account_id,
                                  !.cache_id = a.account_id_cache,
                                  !.cache_time = a.cache_update_time]
       IN  tasks' = [tasks EXCEPT ![f] =
                  IF a.account_id # ""
                  THEN [t1 EXCEPT !.st = "usage"]
                  ELSE [t1 EXCEPT !.st = "resolve"]]
    /\ UNCHANGED <<accounts, data, last_update, mutex, pc, ra, sa, is_running, target_account, ticks, event, seen, now, settings, db, json_file, pending, saver>>

\* lines 600-613: read account_info, validate the credentials
TaskBegin(f) ==
    /\ f \in DOMAIN tasks
    /\ \/ tasks[f].st = "start"
       \/ tasks[f].st = "queued" /\ WorkerAvailable
    /\ LET a == TaskAccount(f)
           t1 == [tasks[f] EXCEPT !.ref = 0, !.acct = NullAcct,
                                  !.name = a.name, !.email = a.email,
                                  !.key = a.key, !.api_token = a.api_token,
                                  !.account_id = a.account_id,
                                  !.cache_id = a.account_id_cache,
                                  !.cache_time = a.cache_update_time]
       IN  tasks' = [tasks EXCEPT ![f] =
                  IF ~(a.email # "" /\ a.key # "") /\ a.api_token = ""
                  THEN [t1 EXCEPT !.st = "done", !.data = ErrorData("no credentials")]
                  ELSE IF a.account_id # ""
                       THEN [t1 EXCEPT !.st = "usage"]
                       ELSE [t1 EXCEPT !.st = "resolve"]]
    /\ UNCHANGED <<accounts, data, last_update, mutex, pc, ra, sa, is_running, target_account, ticks, event, seen, now, settings, db, json_file, pending, saver>>

\* get_account_id, lines 564-571: the cache is valid, no request is made
TaskResolveCached(f) ==
    /\ f \in DOMAIN tasks
    /\ tasks[f].st = "resolve"
    /\ CacheValid(tasks[f].cache_id, tasks[f].cache_time, now)
    /\ tasks' = [tasks EXCEPT ![f].st = "lookup", ![f].account_id = tasks[f].cache_id]
    /\ UNCHANGED <<accounts, data, last_update, mutex, pc, ra, sa, is_running, target_account, ticks, event, seen, now, settings, db, json_file, pending, saver>>

\* variant: a failed GET is tried a second time
TaskResolveRemoteRetry(f, out) ==
    /\ f \in DOMAIN tasks
    /\ tasks[f].st = "resolve"
    /\ ~CacheValid(tasks[f].cache_id, tasks[f].cache_time, now)
    /\ out \in ResolveOutcomes
    /\ IF out = "fail"
       THEN tasks' = [tasks EXCEPT ![f].st = "done", ![f].calls = @ + 2,
                                   ![f].data = ErrorData("account id failed")]
       ELSE tasks' = [tasks EXCEPT ![f].st = "lookup", ![f].calls = @ + 1,
                                   ![f].account_id = out]
    /\ UNCHANGED <<accounts, data, last_update, mutex, pc, ra, sa, is_running, target_account, ticks, event, seen, now, settings, db, json_file, pending, saver>>

\* get_account_id, lines 573-596: one GET {base}/accounts
TaskResolveRemote(f, out) ==
    /\ f \in DOMAIN tasks
    /\ tasks[f].st = "resolve"
    /\ ~CacheValid(tasks[f].cache_id, tasks[f].cache_time, now)
    /\ out \in ResolveOutcomes
    /\ IF out = "fail"
       THEN tasks' = [tasks EXCEPT ![f].st = "done", ![f].calls = @ + 1,
                                   ![f].data = ErrorData("account id failed")]
       ELSE tasks' = [tasks EXCEPT ![f].st = "lookup", ![f].calls = @ + 1,
                                   ![f].account_id = out]
    /\ UNCHANGED <<accounts, data, last_update, mutex, pc, ra, sa, is_running, target_account, ticks, event, seen, now, settings, db, json_file, pending, saver>>

\* lines 620-621: next(i for i, acc in enumerate(get_accounts()) if name matches);
\* StopIteration is caught at line 623 and str(StopIteration()) is ""
TaskLookup(f) ==
    /\ f \in DOMAIN tasks
    /\ tasks[f].st = "lookup"
    /\ LET matches == {i \in DOMAIN accounts : accounts[i].name = tasks[f].name}
       IN  IF matches = {}
           THEN tasks' = [tasks EXCEPT ![f].st = "done", ![f].data = ErrorData("")]
           ELSE tasks' = [tasks EXCEPT ![f].st = "cachewrite",
                              ![f].acc_index = CHOOSE i \in matches : \A j \in matches : i <= j]
    /\ UNCHANGED <<accounts, data, last_update, mutex, pc, ra, sa, is_running, target_account, ticks, event, seen, now, settings, db, json_file, pending, saver>>

\* update_account_cache lines 261-264: the cache fields of the slot are written
CacheWritten(index, account_id) ==
    IF index >= 1 /\ index <= Len(accounts)
    THEN [accounts EXCEPT ![index].account_id_cache = account_id,
                          ![index].cache_update_time = now]
    ELSE accounts

\* variant: a thread that cannot be started is given up
UpdateAccountCacheNoFallback(index, account_id) ==
    /\ saver.st = "idle"
    /\ accounts' = CacheWritten(index, account_id)
    /\ \/ pending' = [pending EXCEPT !.save = TRUE] /\ db' = db
       \/ pending' = pending /\ db' = db

\* ConfigManager.update_account_cache(index, account_id): the cache fields are
\* written, then a thread is started that runs save_config; when start()
\* raises, save_config is called in place
UpdateAccountCache(index, account_id) ==
    /\ saver.st = "idle"
    /\ accounts' = CacheWritten(index, account_id)
    /\ \/ pending' = [pending EXCEPT !.save = TRUE] /\ db' = db
       \/ SaveConfig(settings, CacheWritten(index, account_id), pending)

\* line 622
TaskCacheWrite(f) ==
    /\ f \in DOMAIN tasks
    /\ tasks[f].st = "cachewrite"
    /\ UpdateAccountCache(tasks[f].acc_index, tasks[f].account_id)
    /\ tasks' = [tasks EXCEPT ![f].st = "usage"]
    /\ UNCHANGED <<data, last_update, mutex, pc, ra, sa, is_running, target_account, ticks, event, seen, now, settings, json_file, saver>>

\* lines 664-698: the GraphQL request succeeds
TaskUsageOk(f, rsp) ==
    /\ f \in DOMAIN tasks
    /\ tasks[f].st = "usage"
    /\ rsp \in UsageResponses
    /\ tasks' = [tasks EXCEPT ![f].st = "done",
                     ![f].data = UsageData(SumSeq(rsp.pages), SumSeq(rsp.workers),
                                           tasks[f].account_id)]
    /\ UNCHANGED <<accounts, data, last_update, mutex, pc, ra, sa, is_running, target_account, ticks, event, seen, now, settings, db, json_file, pending, saver>>

\* lines 673-682, 699-703: non-2xx, errors in the envelope, no account in scope
TaskUsageFail(f, out) ==
    /\ f \in DOMAIN tasks
    /\ tasks[f].st = "usage"
    /\ out \in UsageFailures
    /\ tasks' = [tasks EXCEPT ![f].st = "done", ![f].data = ErrorData(UsageErrorMessage(out))]
    /\ UNCHANGED <<accounts, data, last_update, mutex, pc, ra, sa, is_running, target_account, ticks, event, seen, now, settings, db, json_file, pending, saver>>

\* the accounts-in-scope entries of a GraphQL response: the buckets of
\* pagesFunctionsInvocationsAdaptiveGroups and workersInvocationsAdaptive, each
\* bucket its sum.requests
ScopeAccounts ==
    {[pages |-> <<>>, workers |-> <<>>],
     [pages |-> <<1>>, workers |-> <<2, 3>>],
     [pages |-> <<4, 4>>, workers |-> <<>>]}

\* the responses of POST {api_url}/graphql: the status, the top-level errors
\* (their messages) and data.viewer.accounts
HttpResponses ==
    {[status |-> st, errors |-> e, accounts |-> a] :
        st \in {200, 403, 500},
        e \in {<<>>, <<"m1">>, <<"m2", "m1">>},
        a \in {<<>>} \cup {<<x>> : x \in ScopeAccounts}
                     \cup {<<x, y>> : x \in ScopeAccounts, y \in ScopeAccounts}}

\* variant: the top-level errors are looked at only when no account is in scope
ParseUsageDataFirst(r, account_id) ==
    IF r.status >= 400 THEN ErrorData(<<"http error">>)
    ELSE IF r.accounts # <<>>
         THEN UsageData(SumSeq(r.accounts[1].pages), SumSeq(r.accounts[1].workers),
                        account_id)
         ELSE IF r.errors # <<>>
              THEN ErrorData(<<"GraphQL error: ", r.errors[1]>>)
              ELSE ErrorData(<<"no usage data">>)

\* lines 672-703: raise_for_status, the errors test, the accounts test, the
\* sums; the message of an error is the sequence of the parts of its text
ParseUsage(r, account_id) ==
    IF r.status >= 400 THEN ErrorData(<<"http error">>)
    ELSE IF r.errors # <<>>
         THEN ErrorData(<<"GraphQL error: ", r.errors[1]>>)
         ELSE IF r.accounts = <<>>
              THEN ErrorData(<<"no usage data">>)
              ELSE UsageData(SumSeq(r.accounts[1].pages),
                             SumSeq(r.accounts[1].workers), account_id)

\* lines 664-703: the GraphQL request answered by the response r
TaskUsage(f, r) ==
    /\ f \in DOMAIN tasks
    /\ tasks[f].st = "usage"
    /\ r \in HttpResponses
    /\ tasks' = [tasks EXCEPT ![f].st = "done",
                              ![f].data = ParseUsage(r, tasks[f].account_id)]
    /\ UNCHANGED <<accounts, data, last_update, mutex, pc, ra, sa, is_running, target_account, ticks, event, seen, now, settings, db, json_file, pending, saver>>

\* --------------------------------------------------- update_all_accounts
NoCall == [n |-> 0, collected |-> {}, results |-> EmptyMap, current_time |-> NoTime,
           before |-> EmptyMap, ret |-> EmptyMap]

\* where update_all_accounts returns to: RefreshThread.run line 773, or
\* MainWindow.refresh_data line 1731
AfterAll(t) == IF t = "sched" THEN "emit_all" ELSE "ui_show"

\* variant: the lock is taken before the queries are submitted and kept
\* while the results are collected
RA_SubmitLocked(t) ==
    /\ pc[t] = "ra_submit"
    /\ mutex = "free"
    /\ IF accounts = <<>>
       THEN /\ ra' = [ra EXCEPT ![t] = NoCall]
            /\ pc' = [pc EXCEPT ![t] = AfterAll(t)]
            /\ UNCHANGED <<tasks, mutex>>
       ELSE /\ ra' = [ra EXCEPT ![t] = [NoCall EXCEPT !.n = Len(accounts),
                                                   !.current_time = now]]
            /\ pc' = [pc EXCEPT ![t] = "ra_collect"]
            /\ mutex' = t
            /\ tasks' = [f \in (DOMAIN tasks) \cup {<<t, i>> : i \in DOMAIN accounts} |->
                             IF f \in DOMAIN tasks THEN tasks[f]
                             ELSE NewTask(f[2], "queued")]
    /\ UNCHANGED <<accounts, data, last_update, sa, is_running, target_account, ticks, event, seen, now, settings, db, json_file, pending, saver>>

\* lines 707-715: read the registry, submit one query per account, take the time
RA_Submit(t) ==
    /\ pc[t] = "ra_submit"
    /\ IF accounts = <<>>
       THEN /\ ra' = [ra EXCEPT ![t] = NoCall]
            /\ pc' = [pc EXCEPT ![t] = AfterAll(t)]
            /\ UNCHANGED tasks
       ELSE /\ ra' = [ra EXCEPT ![t] = [NoCall EXCEPT !.n = Len(accounts),
                                                   !.current_time = now]]
            /\ pc' = [pc EXCEPT ![t] = "ra_collect"]
            /\ tasks' = [f \in (DOMAIN tasks) \cup {<<t, i>> : i \in DOMAIN accounts} |->
                             IF f \in DOMAIN tasks THEN tasks[f]
                             ELSE NewTask(f[2], "queued")]
    /\ UNCHANGED <<accounts, data, last_update, mutex, sa, is_running, target_account, ticks, event, seen, now, settings, db, json_file, pending, saver>>

\* variant: the first error result ends the collection
RA_CollectAbortOnError(t, i) ==
    /\ pc[t] = "ra_collect"
    /\ i \in 1..ra[t].n
    /\ i \notin ra[t].collected
    /\ tasks[<<t, i>>].st = "done"
    /\ ra' = [ra EXCEPT ![t].collected = IF tasks[<<t, i>>].data.shape = "error"
                                         THEN 1..ra[t].n ELSE @ \cup {i},
                        ![t].results = Put(@, tasks[<<t, i>>].name, tasks[<<t, i>>].data)]
    /\ UNCHANGED <<accounts, data, last_update, mutex, tasks, pc, sa, is_running, target_account, ticks, event, seen, now, settings, db, json_file, pending, saver>>

\* lines 716-721: as_completed yields a finished future; results[name] = data
RA_Collect(t, i) ==
    /\ pc[t] = "ra_collect"
    /\ i \in 1..ra[t].n
    /\ i \notin ra[t].collected
    /\ tasks[<<t, i>>].st = "done"
    /\ ra' = [ra EXCEPT ![t].collected = @ \cup {i},
                        ![t].results = Put(@, tasks[<<t, i>>].name, tasks[<<t, i>>].data)]
    /\ UNCHANGED <<accounts, data, last_update, mutex, tasks, pc, sa, is_running, target_account, ticks, event, seen, now, settings, db, json_file, pending, saver>>

\* lines 724-725: every future was collected; take the lock, data.clear()
\* (before: the mapping this refresh replaces, kept for the claims)
RA_Clear(t) ==
    /\ pc[t] = "ra_collect"
    /\ ra[t].collected = 1..ra[t].n
    /\ mutex = "free"
    /\ mutex' = t
    /\ data' = EmptyMap
    /\ ra' = [ra EXCEPT ![t].before = data]
    /\ tasks' = [f \in {g \in DOMAIN tasks : g[1] # t \/ g[2] = 0} |-> tasks[f]]
    /\ pc' = [pc EXCEPT ![t] = "ra_update"]
    /\ UNCHANGED <<accounts, last_update, sa, is_running, target_account, ticks, event, seen, now, settings, db, json_file, pending, saver>>

\* line 726: data.update(results)
RA_Update(t) ==
    /\ pc[t] = "ra_update"
    /\ data' = Update(data, ra[t].results)
    /\ pc' = [pc EXCEPT ![t] = "ra_stamp"]
    /\ UNCHANGED <<accounts, last_update, mutex, tasks, ra, sa, is_running, target_account, ticks, event, seen, now, settings, db, json_file, pending, saver>>

\* lines 727-728: last_update[name] = current_time for the new names; unlock
RA_Stamp(t) ==
    /\ pc[t] = "ra_stamp"
    /\ last_update' = Update(last_update,
                             [x \in DOMAIN ra[t].results |-> ra[t].current_time])
    /\ mutex' = "free"
    /\ pc' = [pc EXCEPT ![t] = "ra_return"]
    /\ UNCHANGED <<accounts, data, tasks, ra, sa, is_running, target_account, ticks, event, seen, now, settings, db, json_file, pending, saver>>

\* line 730: return self.data.copy()
RA_Return(t) ==
    /\ pc[t] = "ra_return"
    /\ ra' = [ra EXCEPT ![t].ret = data]
    /\ pc' = [pc EXCEPT ![t] = AfterAll(t)]
    /\ UNCHANGED <<accounts, data, last_update, mutex, tasks, sa, is_running, target_account, ticks, event, seen, now, settings, db, json_file, pending, saver>>

\* ------------------------------------------------- update_single_account
NoSingle == [account_name |-> "", ret |-> EmptyMap]

\* lines 734-737: look the account up by name; {} when it is not registered
SA_Find ==
    /\ pc["sched"] = "s_find"
    /\ LET matches == {i \in DOMAIN accounts : accounts[i].name = sa.account_name}
       IN  IF matches = {}
           THEN /\ sa' = [sa EXCEPT !.ret = EmptyMap]
                /\ pc' = [pc EXCEPT !["sched"] = "s_emit"]
                /\ UNCHANGED tasks
           ELSE /\ tasks' = [f \in (DOMAIN tasks) \cup {InlineTask} |->
                                IF f = InlineTask
                                THEN NewTask(CHOOSE i \in matches :
                                                 \A j \in matches : i <= j, "start")
                                ELSE tasks[f]]
                /\ pc' = [pc EXCEPT !["sched"] = "s_query"]
                /\ UNCHANGED sa
    /\ UNCHANGED <<accounts, data, last_update, mutex, ra, is_running, target_account, ticks, event, seen, now, settings, db, json_file, pending, saver>>

\* variant: the single refresh replaces the whole snapshot
SA_UpsertReplacing ==
    /\ pc["sched"] = "s_query"
    /\ tasks[InlineTask].st = "done"
    /\ mutex = "free"
    /\ data' = Put(EmptyMap, tasks[InlineTask].name, tasks[InlineTask].data)
    /\ last_update' = Put(EmptyMap, tasks[InlineTask].name, now)
    /\ sa' = [sa EXCEPT !.ret = Put(EmptyMap, tasks[InlineTask].name, tasks[InlineTask].data)]
    /\ tasks' = [f \in (DOMAIN tasks) \ {InlineTask} |-> tasks[f]]
    /\ pc' = [pc EXCEPT !["sched"] = "s_emit"]
    /\ UNCHANGED <<accounts, mutex, ra, is_running, target_account, ticks, event, seen, now, settings, db, json_file, pending, saver>>

\* lines 741-744: under the lock, data[name] = result, last_update[name] = now
SA_Upsert ==
    /\ pc["sched"] = "s_query"
    /\ tasks[InlineTask].st = "done"
    /\ mutex = "free"
    /\ data' = Put(data, tasks[InlineTask].name, tasks[InlineTask].data)
    /\ last_update' = Put(last_update, tasks[InlineTask].name, now)
    /\ sa' = [sa EXCEPT !.ret = Put(EmptyMap, tasks[InlineTask].name, tasks[InlineTask].data)]
    /\ tasks' = [f \in (DOMAIN tasks) \ {InlineTask} |-> tasks[f]]
    /\ pc' = [pc EXCEPT !["sched"] = "s_emit"]
    /\ UNCHANGED <<accounts, mutex, ra, is_running, target_account, ticks, event, seen, now, settings, db, json_file, pending, saver>>

\* ------------------------------------------------------ RefreshThread.run
NoEvent == [sig |-> "none", name |-> "", one |-> NoData, all |-> EmptyMap]

\* variant: the loop test is always true
Sched_TopIgnoringStop ==
    /\ pc["sched"] = "top"
    /\ IF target_account # NoneVal
       THEN /\ pc' = [pc EXCEPT !["sched"] = "s_find"]
            /\ sa' = [sa EXCEPT !.account_name = target_account]
       ELSE /\ pc' = [pc EXCEPT !["sched"] = "ra_submit"]
            /\ UNCHANGED sa
    /\ event' = NoEvent
    /\ UNCHANGED <<accounts, data, last_update, mutex, tasks, ra, is_running, target_account, ticks, seen, now, settings, db, json_file, pending, saver>>

\* lines 763-772: the loop test and the choice between single and full refresh
Sched_Top ==
    /\ pc["sched"] = "top"
    /\ IF ~is_running
       THEN pc' = [pc EXCEPT !["sched"] = "exited"] /\ UNCHANGED sa
       ELSE IF target_account # NoneVal
            THEN /\ pc' = [pc EXCEPT !["sched"] = "s_find"]
                 /\ sa' = [sa EXCEPT !.account_name = target_account]
            ELSE /\ pc' = [pc EXCEPT !["sched"] = "ra_submit"]
                 /\ UNCHANGED sa
    /\ event' = NoEvent
    /\ UNCHANGED <<accounts, data, last_update, mutex, tasks, ra, is_running, target_account, ticks, seen, now, settings, db, json_file, pending, saver>>

\* variant: the TypeError of emit(None, ...) is not caught and ends run()
Sched_EmitSingleUncaught ==
    /\ pc["sched"] = "s_emit"
    /\ IF target_account = NoneVal
       THEN /\ event' = NoEvent
            /\ pc' = [pc EXCEPT !["sched"] = "exited"]
       ELSE /\ event' = [NoEvent EXCEPT !.sig = "single", !.name = target_account,
                             !.one = IF target_account \in DOMAIN sa.ret
                                     THEN sa.ret[target_account] ELSE EmptyDict]
            /\ pc' = [pc EXCEPT !["sched"] = "s_clear"]
    /\ sa' = NoSingle
    /\ UNCHANGED <<accounts, data, last_update, mutex, tasks, ra, is_running, target_account, ticks, seen, now, settings, db, json_file, pending, saver>>

\* line 768: single_update_signal.emit(self.target_account,
\* data.get(self.target_account, {})); emit(None, ...) raises TypeError,
\* which line 783 turns into error_signal
Sched_EmitSingle ==
    /\ pc["sched"] = "s_emit"
    /\ IF target_account = NoneVal
       THEN /\ event' = [NoEvent EXCEPT !.sig = "error"]
            /\ pc' = [pc EXCEPT !["sched"] = "top"]
       ELSE /\ event' = [NoEvent EXCEPT !.sig = "single", !.name = target_account,
                             !.one = IF target_account \in DOMAIN sa.ret
                                     THEN sa.ret[target_account] ELSE EmptyDict]
            /\ pc' = [pc EXCEPT !["sched"] = "s_clear"]
    /\ sa' = NoSingle
    /\ UNCHANGED <<accounts, data, last_update, mutex, tasks, ra, is_running, target_account, ticks, seen, now, settings, db, json_file, pending, saver>>

\* line 769: self.target_account = None, then the wait loop starts
Sched_ClearTarget ==
    /\ pc["sched"] = "s_clear"
    /\ target_account' = NoneVal
    /\ ticks' = 0
    /\ pc' = [pc EXCEPT !["sched"] = "wait"]
    /\ UNCHANGED <<accounts, data, last_update, mutex, tasks, ra, sa, is_running, event, seen, now, settings, db, json_file, pending, saver>>

\* line 773: update_signal.emit(data)
Sched_EmitAll ==
    /\ pc["sched"] = "emit_all"
    /\ event' = [NoEvent EXCEPT !.sig = "update", !.all = ra["sched"].ret]
    /\ ra' = [ra EXCEPT !["sched"] = NoCall]
    /\ ticks' = 0
    /\ pc' = [pc EXCEPT !["sched"] = "wait"]
    /\ UNCHANGED <<accounts, data, last_update, mutex, tasks, sa, is_running, target_account, seen, now, settings, db, json_file, pending, saver>>

\* variant: the wait loop looks at is_running only
Sched_WaitIgnoringTarget ==
    /\ pc["sched"] = "wait"
    /\ IF ticks < IntervalTicks /\ is_running
       THEN ticks' = ticks + 1 /\ UNCHANGED pc
       ELSE ticks' = 0 /\ pc' = [pc EXCEPT !["sched"] = "top"]
    /\ UNCHANGED <<accounts, data, last_update, mutex, tasks, ra, sa, is_running, target_account, event, seen, now, settings, db, json_file, pending, saver>>

\* lines 778-781: one iteration of the wait loop
Sched_Wait ==
    /\ pc["sched"] = "wait"
    /\ IF ticks < IntervalTicks /\ is_running /\ target_account = NoneVal
       THEN ticks' = ticks + 1 /\ UNCHANGED pc
       ELSE ticks' = 0 /\ pc' = [pc EXCEPT !["sched"] = "top"]
    /\ UNCHANGED <<accounts, data, last_update, mutex, tasks, ra, sa, is_running, target_account, event, seen, now, settings, db, json_file, pending, saver>>

\* ------------------------------------------------------------- MainWindow
\* what AccountDialog.get_account_info can return
Credentials == {[email |-> "", key |-> "", api_token |-> "t"],
                [email |-> "", key |-> "", api_token |-> ""],
                [email |-> "e", key |-> "k", api_token |-> ""],
                [email |-> "e", key |-> "k", api_token |-> "t"]}

DialogInputs ==
    {[name |-> n, email |-> c.email, key |-> c.key, api_token |-> c.api_token,
      account_id |-> a] : n \in Names, c \in Credentials, a \in {"", "aid"}}

UIReady == pc["ui"] = "ready"

\* self.refresh_thread and self.refresh_thread.isRunning()
ThreadRunning == pc["sched"] \notin {"off", "exited"}

\* variant: refresh_data calls update_all_accounts on the UI thread whether or
\* not the refresh thread is running
RefreshDataCallAlwaysInline ==
    target_account' = target_account /\ pc' = [pc EXCEPT !["ui"] = "ra_submit"]

\* MainWindow.refresh_data: with a running thread, target_account = None;
\* otherwise update_all_accounts on the UI thread
RefreshDataCall ==
    IF ThreadRunning
    THEN target_account' = NoneVal /\ pc' = pc
    ELSE target_account' = target_account /\ pc' = [pc EXCEPT !["ui"] = "ra_submit"]

\* the refresh button and the start-up timer
RefreshData ==
    /\ UIReady
    /\ RefreshDataCall
    /\ UNCHANGED <<accounts, data, last_update, mutex, tasks, ra, sa, is_running, ticks, event, seen, now, settings, db, json_file, pending, saver>>

\* MainWindow.refresh_data line 1731: update_ui(data)
UpdateUi ==
    /\ pc["ui"] = "ui_show"
    /\ ra' = [ra EXCEPT !["ui"] = NoCall]
    /\ pc' = [pc EXCEPT !["ui"] = "ready"]
    /\ UNCHANGED <<accounts, data, last_update, mutex, tasks, sa, is_running, target_account, ticks, event, seen, now, settings, db, json_file, pending, saver>>

\* variant: add_account keeps the cache fields the input carried
ConfigAddAccountKeepCache(info) ==
    /\ accounts' = Append(accounts, AccountDict(info, info.account_id_cache,
                                                 info.cache_update_time))
    /\ SaveConfig(settings,
                  Append(accounts, AccountDict(info, info.account_id_cache,
                                               info.cache_update_time)),
                  pending)

\* ConfigManager.add_account: cache fields reset, appended, save_config
ConfigAddAccount(info) ==
    /\ accounts' = Append(accounts, AccountDict(info, "", NoTime))
    /\ SaveConfig(settings, Append(accounts, AccountDict(info, "", NoTime)), pending)

\* MainWindow.add_account: validation, ConfigManager.add_account, refresh_data
AddAccount(info) ==
    /\ UIReady
    /\ Len(accounts) < MaxAccounts
    /\ info \in DialogInputs
    /\ info.name # ""
    /\ (info.email # "" /\ info.key # "") \/ info.api_token # ""
    /\ ConfigAddAccount(info)
    /\ RefreshDataCall
    /\ UNCHANGED <<data, last_update, mutex, tasks, ra, sa, is_running, ticks, event, seen, now, settings, json_file, saver>>

\* variant: update_account resets the cache fields of the slot
ConfigUpdateAccountResetCache(index, info) ==
    IF index >= 1 /\ index <= Len(accounts)
    THEN /\ accounts' = [accounts EXCEPT ![index] = AccountDict(info, "", NoTime)]
         /\ tasks' = TasksAfterReplace(index)
         /\ SaveConfig(settings,
                       [accounts EXCEPT ![index] = AccountDict(info, "", NoTime)],
                       pending)
    ELSE UNCHANGED <<accounts, tasks, db, pending>>

\* ConfigManager.update_account: the slot gets the new dict with the old cache
ConfigUpdateAccount(index, info) ==
    IF index >= 1 /\ index <= Len(accounts)
    THEN /\ accounts' = [accounts EXCEPT ![index] =
                AccountDict(info, accounts[index].account_id_cache,
                            accounts[index].cache_update_time)]
         /\ tasks' = TasksAfterReplace(index)
         /\ SaveConfig(settings,
                       [accounts EXCEPT ![index] =
                           AccountDict(info, accounts[index].account_id_cache,
                                       accounts[index].cache_update_time)],
                       pending)
    ELSE UNCHANGED <<accounts, tasks, db, pending>>

\* MainWindow.edit_account
EditAccount(index, info) ==
    /\ UIReady
    /\ index \in DOMAIN accounts
    /\ info \in DialogInputs
    /\ info.name # ""
    /\ ConfigUpdateAccount(index, info)
    /\ RefreshDataCall
    /\ UNCHANGED <<data, last_update, mutex, ra, sa, is_running, ticks, event, seen, now, settings, json_file, saver>>

\* ConfigManager.delete_account
ConfigDeleteAccount(index) ==
    IF index >= 1 /\ index <= Len(accounts)
    THEN /\ accounts' = RemoveAt(accounts, index)
         /\ tasks' = TasksAfterDelete(index)
         /\ SaveConfig(settings, RemoveAt(accounts, index), pending)
    ELSE UNCHANGED <<accounts, tasks, db, pending>>

\* MainWindow.delete_account
DeleteAccount(index) ==
    /\ UIReady
    /\ index \in DOMAIN accounts
    /\ ConfigDeleteAccount(index)
    /\ RefreshDataCall
    /\ UNCHANGED <<data, last_update, mutex, ra, sa, is_running, ticks, event, seen, now, settings, json_file, saver>>

\* variant: a request does not replace a pending one
ClickAccountKeepPending(name) ==
    /\ UIReady
    /\ pc["sched"] # "off"
    /\ name \in RegistryNames
    /\ target_account' = IF target_account = NoneVal THEN name ELSE target_account
    /\ UNCHANGED <<accounts, data, last_update, mutex, tasks, pc, ra, sa, is_running, ticks, event, seen, now, settings, db, json_file, pending, saver>>

\* MainWindow.on_account_click -> RefreshThread.refresh_single_account
ClickAccount(name) ==
    /\ UIReady
    /\ pc["sched"] # "off"
    /\ name \in RegistryNames
    /\ target_account' = name
    /\ UNCHANGED <<accounts, data, last_update, mutex, tasks, pc, ra, sa, is_running, ticks, event, seen, now, settings, db, json_file, pending, saver>>

\* MainWindow.start_refresh_thread
StartRefreshThread ==
    /\ UIReady
    /\ pc["sched"] = "off"
    /\ is_running' = TRUE
    /\ target_account' = NoneVal
    /\ pc' = [pc EXCEPT !["sched"] = "top"]
    /\ UNCHANGED <<accounts, data, last_update, mutex, tasks, ra, sa, ticks, event, seen, now, settings, db, json_file, pending, saver>>

\* MainWindow.stop_refresh_thread with a running thread -> RefreshThread.stop:
\* is_running = False, then QThread.wait() blocks the UI thread
StopRefreshThread ==
    /\ UIReady
    /\ ThreadRunning
    /\ is_running' = FALSE
    /\ pc' = [pc EXCEPT !["ui"] = "stop_wait"]
    /\ UNCHANGED <<accounts, data, last_update, mutex, tasks, ra, sa, target_account, ticks, event, seen, now, settings, db, json_file, pending, saver>>

\* QThread.wait() returns once run() has returned; refresh_thread = None
StopWait ==
    /\ pc["ui"] = "stop_wait"
    /\ pc["sched"] = "exited"
    /\ pc' = [pc EXCEPT !["ui"] = "ready", !["sched"] = "off"]
    /\ UNCHANGED <<accounts, data, last_update, mutex, tasks, ra, sa, is_running, target_account, ticks, event, seen, now, settings, db, json_file, pending, saver>>

\* NotificationSettingsDialog.send_at_custom_time, line 1157:
\* cf_client.data.copy() if cf_client.data else {}, taken without the lock
SendAtCustomTime ==
    /\ UIReady
    /\ seen' = data
    /\ UNCHANGED <<accounts, data, last_update, mutex, tasks, pc, ra, sa, is_running, target_account, ticks, event, now, settings, db, json_file, pending, saver>>

\* time passes
Tick ==
    /\ now + TickHours <= MaxTime
    /\ now' = now + TickHours
    /\ UNCHANGED <<accounts, data, last_update, mutex, tasks, pc, ra, sa, is_running, target_account, ticks, event, seen, settings, db, json_file, pending, saver>>

\* ------------------------------------------------------------ ConfigManager
\* ConfigManager.__init__ at process start: load_config reads the tables; with
\* no account in them and a readable cf_monitor_config.json the file replaces
\* the config and _migrate_to_db rewrites the tables; an unreadable file
\* raises and the config read so far stays
LoadConfig ==
    /\ pc["ui"] \in {"boot", "down"}
    /\ LET s1 == SettingsFromRows(db.config, DefaultSettings)
           a1 == DictsOf(db.accounts)
           sj == [proxy |-> json_file.proxy,
                  refresh_interval |-> json_file.refresh_interval,
                  request_limit |-> json_file.request_limit]
       IN  IF a1 = <<>> /\ json_file.state = "ok"
           THEN /\ accounts' = json_file.accounts
                /\ settings' = sj
                /\ db' = MigratedDb(sj, json_file.accounts)
           ELSE /\ accounts' = a1
                /\ settings' = s1
                /\ db' = db
    /\ pending' = NoThreads
    /\ pc' = [pc EXCEPT !["ui"] = "ready"]
    /\ UNCHANGED <<data, last_update, mutex, tasks, ra, sa, is_running, target_account, ticks, event, seen, now, json_file, saver>>

\* ConfigManager.add_account called with a dict
CM_AddAccount(input) ==
    /\ UIReady
    /\ Len(accounts) < MaxAccounts
    /\ ConfigAddAccount(input)
    /\ UNCHANGED <<data, last_update, mutex, tasks, pc, ra, sa, is_running, target_account, ticks, event, seen, now, settings, json_file, saver>>

\* ConfigManager.update_account called with an index and a dict
CM_UpdateAccount(index, input) ==
    /\ UIReady
    /\ ConfigUpdateAccount(index, input)
    /\ UNCHANGED <<data, last_update, mutex, pc, ra, sa, is_running, target_account, ticks, event, seen, now, settings, json_file, saver>>

\* ConfigManager.delete_account called with an index
CM_DeleteAccount(index) ==
    /\ UIReady
    /\ ConfigDeleteAccount(index)
    /\ UNCHANGED <<data, last_update, mutex, pc, ra, sa, is_running, target_account, ticks, event, seen, now, settings, json_file, saver>>

\* ConfigManager.update_account_cache called with an index and an id
CM_UpdateAccountCache(index, account_id) ==
    /\ UIReady
    /\ UpdateAccountCache(index, account_id)
    /\ UNCHANGED <<data, last_update, mutex, tasks, pc, ra, sa, is_running, target_account, ticks, event, seen, now, settings, json_file, saver>>

\* SettingsDialog.save_settings: update_proxy_config, set_refresh_interval,
\* set_request_limit, each followed by save_config
SaveSettings(s) ==
    /\ UIReady
    /\ s \in SettingsInputs
    /\ settings' = s
    /\ SaveConfig(s, accounts, pending)
    /\ UNCHANGED <<accounts, data, last_update, mutex, tasks, pc, ra, sa, is_running, target_account, ticks, event, seen, now, json_file, saver>>

\* the thread update_account_cache started: save_config
SaveThread ==
    /\ pending.save
    /\ SaveConfig(settings, accounts, [pending EXCEPT !.save = FALSE])
    /\ UNCHANGED <<accounts, data, last_update, mutex, tasks, pc, ra, sa, is_running, target_account, ticks, event, seen, now, settings, json_file, saver>>

\* the save thread, statement by statement. save_config lines 197-213: the
\* mutex is taken, both tables are emptied and the config rows inserted, each
\* statement committed on its own (start: the list at that moment, kept for
\* the claims)
Saver_Begin ==
    /\ pending.save
    /\ saver.st = "idle"
    /\ UIReady \/ pc["ui"] = "save_config"
    /\ saver' = [st |-> "iter", i |-> 1, rows |-> <<>>, start |-> accounts]
    /\ pending' = [pending EXCEPT !.save = FALSE]
    /\ db' = [config |-> ConfigRows(settings), accounts |-> <<>>]
    /\ UNCHANGED <<accounts, data, last_update, mutex, tasks, pc, ra, sa, is_running, target_account, ticks, event, seen, now, settings, json_file>>

\* lines 217-226: one iteration of for acc in self.config.get('accounts', [])
\* over the live list
Saver_Read ==
    /\ saver.st = "iter"
    /\ saver.i <= Len(accounts)
    /\ saver' = [saver EXCEPT !.rows = Append(@, RowOf(accounts[saver.i])),
                              !.i = @ + 1]
    /\ UNCHANGED <<accounts, data, last_update, mutex, tasks, pc, ra, sa, is_running, target_account, ticks, event, seen, now, settings, db, json_file, pending>>

\* lines 227-246: the list is exhausted; executemany, commit, save_json is
\* started unless an insert raised; the mutex is released
Saver_Insert ==
    /\ saver.st = "iter"
    /\ saver.i > Len(accounts)
    /\ db' = [db EXCEPT !.accounts = InsertRows(saver.rows)]
    /\ pending' = [pending EXCEPT !.json = @ \/ NamesUnique(saver.rows)]
    /\ saver' = NoSaver
    /\ UNCHANGED <<accounts, data, last_update, mutex, tasks, pc, ra, sa, is_running, target_account, ticks, event, seen, now, settings, json_file>>

\* ConfigManager.add_account lines 275-277, on the UI thread: the list is
\* changed without the mutex; save_config is still to be called
Reg_Add(input) ==
    /\ UIReady
    /\ Len(accounts) < MaxAccounts
    /\ accounts' = Append(accounts, AccountDict(input, "", NoTime))
    /\ pc' = [pc EXCEPT !["ui"] = "save_config"]
    /\ UNCHANGED <<data, last_update, mutex, tasks, ra, sa, is_running, target_account, ticks, event, seen, now, settings, db, json_file, pending, saver>>

\* ConfigManager.update_account lines 281-285
Reg_Update(index, input) ==
    /\ UIReady
    /\ index \in DOMAIN accounts
    /\ accounts' = [accounts EXCEPT ![index] =
                        AccountDict(input, accounts[index].account_id_cache,
                                    accounts[index].cache_update_time)]
    /\ tasks' = TasksAfterReplace(index)
    /\ pc' = [pc EXCEPT !["ui"] = "save_config"]
    /\ UNCHANGED <<data, last_update, mutex, ra, sa, is_running, target_account, ticks, event, seen, now, settings, db, json_file, pending, saver>>

\* ConfigManager.delete_account lines 289-290
Reg_Delete(index) ==
    /\ UIReady
    /\ index \in DOMAIN accounts
    /\ accounts' = RemoveAt(accounts, index)
    /\ tasks' = TasksAfterDelete(index)
    /\ pc' = [pc EXCEPT !["ui"] = "save_config"]
    /\ UNCHANGED <<data, last_update, mutex, ra, sa, is_running, target_account, ticks, event, seen, now, settings, db, json_file, pending, saver>>

\* the save_config call that ends add_account, update_account and
\* delete_account: it waits for the mutex
Reg_Save ==
    /\ pc["ui"] = "save_config"
    /\ SaveConfig(settings, accounts, pending)
    /\ pc' = [pc EXCEPT !["ui"] = "ready"]
    /\ UNCHANGED <<accounts, data, last_update, mutex, tasks, ra, sa, is_running, target_account, ticks, event, seen, now, settings, json_file, saver>>

\* the thread save_config started: save_json dumps the config as it is now
SaveJson ==
    /\ pending.json
    /\ json_file' = JsonDoc(settings, accounts)
    /\ pending' = [pending EXCEPT !.json = FALSE]
    /\ UNCHANGED <<accounts, data, last_update, mutex, tasks, pc, ra, sa, is_running, target_account, ticks, event, seen, now, settings, db, saver>>

\* MainWindow.closeEvent with no refresh thread running: save_config, close;
\* the process ends, its daemon threads run before that or never
CloseEvent ==
    /\ UIReady
    /\ ~ThreadRunning
    /\ SaveConfig(settings, accounts, pending)
    /\ pc' = [pc EXCEPT !["ui"] = "down"]
    /\ UNCHANGED <<accounts, data, last_update, mutex, tasks, ra, sa, is_running, target_account, ticks, event, seen, now, settings, json_file, saver>>

\* ------------------------------------------------------------------ system
FutureIndex == 1..(MaxAccounts + PoolAccounts)

TaskIds == Threads \X (0..(MaxAccounts + PoolAccounts))

InitState(accs) ==
    /\ accounts = accs
    /\ data = EmptyMap
    /\ last_update = EmptyMap
    /\ mutex = "free"
    /\ tasks = EmptyMap
    /\ pc = [t \in Threads |-> IF t = "sched" THEN "off" ELSE "ready"]
    /\ ra = [t \in Threads |-> NoCall]
    /\ sa = NoSingle
    /\ is_running = TRUE
    /\ target_account = NoneVal
    /\ ticks = 0
    /\ event = NoEvent
    /\ seen = EmptyMap
    /\ now = 0
    /\ settings = DefaultSettings
    /\ db = IF accs = <<>> THEN EmptyDb ELSE SavedDb(DefaultSettings, accs)
    /\ json_file = IF accs = <<>> THEN NoFile ELSE JsonDoc(DefaultSettings, accs)
    /\ pending = NoThreads
    /\ saver = NoSaver

\* the single-account path of the scheduler loop
EngineSingle ==
    \/ SA_Find
    \/ SA_Upsert
    \/ Sched_EmitSingle
    \/ Sched_ClearTarget

\* the scheduler loop and update_all_accounts
EngineFull ==
    \/ Sched_Top
    \/ Sched_EmitAll
    \/ Sched_Wait
    \/ UpdateUi
    \/ \E t \in Threads : RA_Submit(t)
    \/ \E t \in Threads, i \in FutureIndex : RA_Collect(t, i)
    \/ \E t \in Threads : RA_Clear(t)
    \/ \E t \in Threads : RA_Update(t)
    \/ \E t \in Threads : RA_Stamp(t)
    \/ \E t \in Threads : RA_Return(t)

\* a registry entry as load_config builds it
Loaded(name, api_token, account_id, cache_id, cache_time) ==
    [name |-> name, email |-> "", key |-> "", api_token |-> api_token,
     account_id |-> account_id, account_id_cache |-> cache_id,
     cache_update_time |-> cache_time]

\* dialog inputs that carry a token only and an explicit account id
ExplicitInputs ==
    {i \in DialogInputs : i.account_id # "" /\ i.api_token # "" /\ i.email = ""}

\* dialog inputs with a token only and without an explicit account id
ResolveInputs ==
    {i \in DialogInputs : i.account_id = "" /\ i.api_token # "" /\ i.email = ""}

\* Spec: the snapshot and its readers; every account carries an explicit id
Init == InitState(<<>>)

Next ==
    \/ \E info \in ExplicitInputs : AddAccount(info)
    \/ \E i \in 1..MaxAccounts : DeleteAccount(i)
    \/ \E n \in Names : ClickAccount(n)
    \/ RefreshData
    \/ StartRefreshThread
    \/ SendAtCustomTime
    \/ EngineFull
    \/ EngineSingle
    \/ \E f \in TaskIds : TaskBegin(f)
    \/ \E f \in TaskIds, rsp \in UsageResponses : TaskUsageOk(f, rsp)
    \/ \E f \in TaskIds : TaskUsageFail(f, "errors")

Spec == Init /\ [][Next]_vars

\* SpecTimed: the snapshot's timestamps; two registered accounts, time passes
TimedConfigs ==
    {<<Loaded("A", "t", "aid", "", NoTime), Loaded(n, "t", "aid", "", NoTime)>> : n \in Names}

InitTimed == \E c \in TimedConfigs : InitState(c)

NextTimed ==
    \/ \E i \in 1..MaxAccounts : DeleteAccount(i)
    \/ \E n \in Names : ClickAccount(n)
    \/ RefreshData
    \/ StartRefreshThread
    \/ Tick
    \/ EngineFull
    \/ EngineSingle
    \/ \E f \in TaskIds : TaskBegin(f)
    \/ \E f \in TaskIds, rsp \in UsageResponses : TaskUsageOk(f, rsp)
    \/ \E f \in TaskIds : TaskUsageFail(f, "errors")

SpecTimed == InitTimed /\ [][NextTimed]_vars

\* SpecPool: more registered accounts than worker threads
NameSeq == <<"A", "B", "C", "D", "E", "F", "G", "H">>

PoolConfig == [i \in 1..PoolAccounts |-> Loaded(NameSeq[i], "t", "aid", "", NoTime)]

InitPool == InitState(PoolConfig)

NextPool ==
    \/ RefreshData
    \/ StartRefreshThread
    \/ EngineFull
    \/ \E f \in TaskIds : TaskBegin(f)
    \/ \E f \in TaskIds, rsp \in UsageResponses : TaskUsageOk(f, rsp)

SpecPool == InitPool /\ [][NextPool]_vars

\* SpecResolver: full refreshes over one registered account without an
\* explicit id, every state of its cache fields, time passes, the account is
\* renamed or deleted
ResolverAccounts ==
    {Loaded("A", "t", "", c[1], c[2]) :
        c \in {<<"", NoTime>>, <<"rid", 0>>, <<"rid", BadTime>>, <<"rid", NoTime>>, <<"", 0>>}}

InitResolver == \E a \in ResolverAccounts : InitState(<<a>>)

NextResolver ==
    \/ \E i \in 1..MaxAccounts, info \in ResolveInputs : EditAccount(i, info)
    \/ \E i \in 1..MaxAccounts : DeleteAccount(i)
    \/ RefreshData
    \/ StartRefreshThread
    \/ Tick
    \/ EngineFull
    \/ \E f \in TaskIds : TaskBegin(f)
    \/ \E f \in TaskIds : TaskResolveCached(f)
    \/ \E f \in TaskIds, out \in ResolveOutcomes : TaskResolveRemote(f, out)
    \/ \E f \in TaskIds : TaskLookup(f)
    \/ \E f \in TaskIds : TaskCacheWrite(f)
    \/ \E f \in TaskIds, rsp \in UsageResponses : TaskUsageOk(f, rsp)
    \/ \E f \in TaskIds : TaskUsageFail(f, "errors")

SpecResolver == InitResolver /\ [][NextResolver]_vars

\* SpecFailure: a full refresh over accounts of every kind: an explicit id, an
\* id to resolve, no credentials; every remote outcome
FailureConfig ==
    <<Loaded("A", "t", "aid", "", NoTime), Loaded("B", "t", "aid", "", NoTime),
      Loaded("C", "t", "", "", NoTime), Loaded("D", "", "", "", NoTime)>>

InitFailure == InitState(FailureConfig)

NextFailure ==
    \/ RefreshData
    \/ StartRefreshThread
    \/ EngineFull
    \/ \E f \in TaskIds : TaskBegin(f)
    \/ \E f \in TaskIds : TaskResolveCached(f)
    \/ \E f \in TaskIds, out \in ResolveOutcomes : TaskResolveRemote(f, out)
    \/ \E f \in TaskIds : TaskLookup(f)
    \/ \E f \in TaskIds : TaskCacheWrite(f)
    \/ \E f \in TaskIds, rsp \in UsageResponses : TaskUsageOk(f, rsp)
    \/ \E f \in TaskIds, out \in UsageFailures : TaskUsageFail(f, out)

SpecFailure == InitFailure /\ [][NextFailure]_vars

\* SpecStore: ConfigManager alone, over process restarts: its methods are
\* called as MainWindow and the workers call them; the first start finds a
\* new installation or the cf_monitor_config.json the JSON-only program left
StoreInputs ==
    {[name |-> n, email |-> "", key |-> "", api_token |-> "t", account_id |-> "aid",
      account_id_cache |-> c[1], cache_update_time |-> c[2]] :
        n \in Names, c \in {<<"", NoTime>>, <<"rid", 0>>}}

LegacyFiles ==
    {NoFile, CorruptFile,
     JsonDoc(DefaultSettings, <<Loaded("A", "t", "aid", "", NoTime)>>),
     JsonDoc(DefaultSettings, <<Loaded("A", "t", "aid", "", NoTime),
                                Loaded("A", "t", "", "rid", 0)>>)}

InitStore ==
    /\ accounts = <<>>
    /\ data = EmptyMap
    /\ last_update = EmptyMap
    /\ mutex = "free"
    /\ tasks = EmptyMap
    /\ pc = [t \in Threads |-> IF t = "sched" THEN "off" ELSE "boot"]
    /\ ra = [t \in Threads |-> NoCall]
    /\ sa = NoSingle
    /\ is_running = TRUE
    /\ target_account = NoneVal
    /\ ticks = 0
    /\ event = NoEvent
    /\ seen = EmptyMap
    /\ now = 0
    /\ settings = DefaultSettings
    /\ db = EmptyDb
    /\ json_file \in LegacyFiles
    /\ pending = NoThreads
    /\ saver = NoSaver

NextStore ==
    \/ LoadConfig
    \/ \E input \in StoreInputs : CM_AddAccount(input)
    \/ \E i \in 1..MaxAccounts, input \in StoreInputs : CM_UpdateAccount(i, input)
    \/ \E i \in 1..MaxAccounts : CM_DeleteAccount(i)
    \/ \E i \in 1..MaxAccounts, id \in RemoteIds : CM_UpdateAccountCache(i, id)
    \/ \E s \in SettingsInputs : SaveSettings(s)
    \/ SaveThread
    \/ SaveJson
    \/ CloseEvent

SpecStore == InitStore /\ [][NextStore]_vars

\* SpecRegistry: the account dialogs with every credential combination the
\* form can return; every account carries an explicit id, the refresh thread
\* is not started, so refresh_data refreshes on the UI thread
RegistryInputs == {i \in DialogInputs : i.account_id # ""}

InitRegistry == InitState(<<>>)

NextRegistry ==
    \/ \E info \in RegistryInputs : AddAccount(info)
    \/ \E i \in 1..MaxAccounts, info \in RegistryInputs : EditAccount(i, info)
    \/ \E i \in 1..MaxAccounts : DeleteAccount(i)
    \/ UpdateUi
    \/ RA_Submit("ui")
    \/ \E i \in FutureIndex : RA_Collect("ui", i)
    \/ RA_Clear("ui")
    \/ RA_Update("ui")
    \/ RA_Stamp("ui")
    \/ RA_Return("ui")
    \/ \E f \in TaskIds : TaskBegin(f)
    \/ \E f \in TaskIds, rsp \in UsageResponses : TaskUsageOk(f, rsp)
    \/ \E f \in TaskIds : TaskUsageFail(f, "errors")

SpecRegistry == InitRegistry /\ [][NextRegistry]_vars

\* SpecSched: the scheduler loop with its requests: two accounts with explicit
\* ids, clicks on either, the refresh button, start and stop of the thread
SchedConfig ==
    <<Loaded("A", "t", "aid", "", NoTime), Loaded("B", "t", "aid", "", NoTime)>>

InitSched == InitState(SchedConfig)

\* a step of RefreshThread.run and of the refresh it is in
SchedStep ==
    \/ Sched_Top
    \/ Sched_EmitAll
    \/ Sched_Wait
    \/ EngineSingle
    \/ RA_Submit("sched")
    \/ \E i \in FutureIndex : RA_Collect("sched", i)
    \/ RA_Clear("sched")
    \/ RA_Update("sched")
    \/ RA_Stamp("sched")
    \/ RA_Return("sched")

\* a step of one call of query_usage_single
TaskStep(f) ==
    \/ TaskBegin(f)
    \/ \E rsp \in UsageResponses : TaskUsageOk(f, rsp)
    \/ TaskUsageFail(f, "errors")

NextSched ==
    \/ \E n \in Names : ClickAccount(n)
    \/ RefreshData
    \/ StartRefreshThread
    \/ StopRefreshThread
    \/ StopWait
    \/ EngineFull
    \/ EngineSingle
    \/ \E f \in TaskIds : TaskStep(f)

SpecSched == InitSched /\ [][NextSched]_vars

\* SpecSchedFair: the thread and its queries keep running: every refresh call
\* returns
SpecSchedFair ==
    /\ SpecSched
    /\ WF_vars(SchedStep)
    /\ \A i \in 0..Len(SchedConfig) : WF_vars(TaskStep(<<"sched", i>>))

\* SpecClicks: the running thread and on_account_click only (no manual
\* refresh), under the same fairness
NextClicks ==
    \/ \E n \in Names : ClickAccount(n)
    \/ StartRefreshThread
    \/ StopRefreshThread
    \/ StopWait
    \/ SchedStep
    \/ \E i \in 0..Len(SchedConfig) : TaskStep(<<"sched", i>>)

SpecClicks ==
    /\ InitSched /\ [][NextClicks]_vars
    /\ WF_vars(SchedStep)
    /\ \A i \in 0..Len(SchedConfig) : WF_vars(TaskStep(<<"sched", i>>))

\* SpecCacheRace: two accounts whose ids are resolved by the refresh thread
\* while the settings dialog deletes accounts on the UI thread and the save
\* threads started by the cache updates run
CacheRaceConfig ==
    <<Loaded("A", "t", "", "", NoTime), Loaded("B", "t", "", "", NoTime)>>

InitCacheRace == InitState(CacheRaceConfig)

NextCacheRace ==
    \/ \E i \in 1..MaxAccounts : DeleteAccount(i)
    \/ StartRefreshThread
    \/ EngineFull
    \/ \E f \in TaskIds : TaskBegin(f)
    \/ \E f \in TaskIds : TaskResolveCached(f)
    \/ \E f \in TaskIds, out \in ResolveOutcomes : TaskResolveRemote(f, out)
    \/ \E f \in TaskIds : TaskLookup(f)
    \/ \E f \in TaskIds : TaskCacheWrite(f)
    \/ \E f \in TaskIds, rsp \in UsageResponses : TaskUsageOk(f, rsp)
    \/ \E f \in TaskIds : TaskUsageFail(f, "errors")
    \/ Saver_Begin
    \/ Saver_Read
    \/ Saver_Insert
    \/ SaveJson

SpecCacheRace == InitCacheRace /\ [][NextCacheRace]_vars

\* SpecSaveRace: the save thread started by a cache update, statement by
\* statement, next to the registry operations of the UI thread
InitSaveRace == InitState(SchedConfig)

NextSaveRace ==
    \/ \E i \in 1..MaxAccounts, id \in RemoteIds : CM_UpdateAccountCache(i, id)
    \/ Saver_Begin
    \/ Saver_Read
    \/ Saver_Insert
    \/ SaveJson
    \/ \E input \in StoreInputs : Reg_Add(input)
    \/ \E i \in 1..MaxAccounts, input \in StoreInputs : Reg_Update(i, input)
    \/ \E i \in 1..MaxAccounts : Reg_Delete(i)
    \/ Reg_Save

SpecSaveRace == InitSaveRace /\ [][NextSaveRace]_vars

\* SpecUsage: refreshes on the UI thread of two accounts with explicit ids,
\* every usage request answered by any of the responses
InitUsage == InitState(SchedConfig)

NextUsage ==
    \/ RefreshData
    \/ UpdateUi
    \/ RA_Submit("ui")
    \/ \E i \in FutureIndex : RA_Collect("ui", i)
    \/ RA_Clear("ui")
    \/ RA_Update("ui")
    \/ RA_Stamp("ui")
    \/ RA_Return("ui")
    \/ \E f \in TaskIds : TaskBegin(f)
    \/ \E f \in TaskIds, r \in HttpResponses : TaskUsage(f, r)

SpecUsage == InitUsage /\ [][NextUsage]_vars

\* ------------------------------------------------------------------ claims
\* a thread is between data.clear() and the end of update_all_accounts' locked block
Replacing(t) == pc[t] \in {"ra_update", "ra_stamp"}

\* no update_all_accounts or update_single_account call is running
NoRefreshInFlight ==
    /\ pc["sched"] \in {"off", "top", "wait", "exited"}
    /\ pc["ui"] = "ready"

C3_SnapshotWithinRegistry ==
    NoRefreshInFlight =>
        /\ DOMAIN data \subseteq RegistryNames
        /\ DOMAIN last_update \subseteq RegistryNames

\* C4: the snapshot a full refresh installs holds no account that was deleted
\* while the refresh was in flight: its keys are names of the registry as it
\* is when the refresh completes
C4_InstallReconciled ==
    [][\A t \in Threads : RA_Update(t) => DOMAIN data' \subseteq RegistryNames']_vars

\* C5: a full refresh over N accounts ends with exactly N result entries, each
\* a success or an error result
C5_OneResultPerAccount ==
    \A t \in Threads :
        (pc[t] = "ra_collect" /\ ra[t].collected = 1..ra[t].n) =>
            /\ Cardinality(DOMAIN ra[t].results) = ra[t].n
            /\ \A x \in DOMAIN ra[t].results : ra[t].results[x].shape \in {"usage", "error"}

\* the entry of name x in mapping m, NoData when m has none
Entry(m, x) == IF x \in DOMAIN m THEN m[x] ELSE NoData

\* the timestamp of name x in last_update, NoTime when it has none
Stamp(m, x) == IF x \in DOMAIN m THEN m[x] ELSE NoTime

\* C2: from the call of update_single_account(X) to its return, every step
\* leaves the snapshot entry and the timestamp of every name other than X as
\* they were
C2_SingleRefreshFrame ==
    [][pc["sched"] \in {"s_find", "s_query"} =>
          \A x \in Names \ {sa.account_name} :
              /\ Entry(data', x) = Entry(data, x)
              /\ Stamp(last_update', x) = Stamp(last_update, x)]_vars

\* update_single_account has upserted X and the snapshot holds another
\* account's entry with an older timestamp
C2_Witness ==
    /\ pc["sched"] = "s_emit"
    /\ sa.account_name \in DOMAIN sa.ret
    /\ data[sa.account_name] = sa.ret[sa.account_name]
    /\ \E y \in DOMAIN data \ {sa.account_name} :
           /\ y \in DOMAIN last_update
           /\ last_update[y] < last_update[sa.account_name]

\* C6: at most MAX_WORKERS calls of query_usage_single submitted by
\* update_all_accounts run at any instant, whichever threads submitted them
C6_InFlightWithinPool == Cardinality(InFlight) <= MAX_WORKERS

\* all worker threads are busy and a submitted query waits in the queue
C6_Witness ==
    /\ Cardinality(InFlight) = MAX_WORKERS
    /\ \E f \in DOMAIN tasks : f[2] # 0 /\ tasks[f].st = "queued"

\* a call of query_usage_single ended with a credential, resolution or usage failure
FailedResult(d) ==
    /\ d.shape = "error"
    /\ d.error \in {"no credentials", "account id failed"}
                       \cup {UsageErrorMessage(out) : out \in UsageFailures}

\* C7: in update_all_accounts a query that ends with a failure changes no other
\* query, and when the collection ends every submitted account has its own
\* query's result, the failed ones an error with a message
C7_FailureIsolated ==
    [][/\ \A f \in DOMAIN tasks :
              (/\ f \in DOMAIN tasks'
               /\ tasks[f].st # "done"
               /\ tasks'[f].st = "done"
               /\ tasks'[f].data.shape = "error") =>
                  /\ DOMAIN tasks' = DOMAIN tasks
                  /\ \A g \in DOMAIN tasks \ {f} : tasks'[g] = tasks[g]
                  /\ UNCHANGED <<data, last_update, ra, pc>>
       /\ \A t \in Threads : RA_Clear(t) =>
              \A i \in 1..ra[t].n :
                  /\ tasks[<<t, i>>].st = "done"
                  /\ tasks[<<t, i>>].name \in DOMAIN ra[t].results
                  /\ ra[t].results[tasks[<<t, i>>].name] = tasks[<<t, i>>].data
                  /\ \/ tasks[<<t, i>>].data.shape = "usage"
                     \/ FailedResult(tasks[<<t, i>>].data)]_vars

\* a full refresh installed one account's usage next to a credential failure,
\* a resolution failure and a usage failure of its siblings
C7_Witness ==
    /\ \E t \in Threads : pc[t] = "ra_return"
    /\ \E w, x, y, z \in DOMAIN data :
           /\ data[w].shape = "usage"
           /\ data[x] = ErrorData("no credentials")
           /\ data[y] = ErrorData("account id failed")
           /\ data[z] = ErrorData(UsageErrorMessage("errors"))

\* C8: every finished call of query_usage_single returned usage counts or an
\* error with a non-empty message
C8_FailureCarriesMessage ==
    \A f \in DOMAIN tasks :
        tasks[f].st = "done" =>
            \/ tasks[f].data.shape = "usage"
            \/ tasks[f].data.shape = "error" /\ tasks[f].data.error # ""

\* a success result, or an error result with a message
WellFormedResult(d) ==
    \/ d.shape = "usage" /\ d.error = "" /\ d.account_id # ""
    \/ d.shape = "error" /\ d.error # ""

\* C9: every result in the snapshot and every result emitted with
\* single_update_signal or update_signal is a success result or an error
\* result with a message
C9_ResultsWellFormed ==
    /\ \A x \in DOMAIN data : WellFormedResult(data[x])
    /\ event.sig = "single" => WellFormedResult(event.one)
    /\ event.sig = "update" => \A x \in DOMAIN event.all : WellFormedResult(event.all[x])

\* C10: get_account_id called with a non-empty cache id and a parsable cache
\* time less than CACHE_EXPIRE_HOURS hours old returns the cache id without a
\* request
C10_FreshCacheNoRequest ==
    [][\A f \in DOMAIN tasks :
          (/\ tasks[f].st = "resolve"
           /\ tasks[f].cache_id # ""
           /\ tasks[f].cache_time >= 0
           /\ now - tasks[f].cache_time < CACHE_EXPIRE_HOURS
           /\ f \in DOMAIN tasks'
           /\ tasks'[f].st # "resolve") =>
              /\ tasks'[f].st = "lookup"
              /\ tasks'[f].account_id = tasks[f].cache_id
              /\ tasks'[f].calls = tasks[f].calls]_vars

\* get_account_id returned the id cached TickHours hours ago without a request
C10_Witness ==
    \E f \in DOMAIN tasks :
        /\ tasks[f].st = "lookup"
        /\ tasks[f].calls = 0
        /\ tasks[f].cache_id # ""
        /\ tasks[f].account_id = tasks[f].cache_id
        /\ now - tasks[f].cache_time = TickHours

\* the cache fields a call of get_account_id received do not allow the cache
\* to be used: no id, no time, an unparsable time, or CACHE_EXPIRE_HOURS or older
CacheUnusable(tsk) ==
    \/ tsk.cache_id = ""
    \/ tsk.cache_time = NoTime
    \/ tsk.cache_time = BadTime
    \/ now - tsk.cache_time >= CACHE_EXPIRE_HOURS

\* C11: get_account_id called with an unusable cache makes exactly one request,
\* whether the request succeeds or fails
C11_StaleCacheOneRequest ==
    [][\A f \in DOMAIN tasks :
          (/\ tasks[f].st = "resolve"
           /\ CacheUnusable(tasks[f])
           /\ f \in DOMAIN tasks'
           /\ tasks'[f].st # "resolve") =>
              /\ tasks'[f].calls = tasks[f].calls + 1
              /\ tasks[f].calls = 0
              /\ \/ tasks'[f].st = "lookup" /\ tasks'[f].account_id \in RemoteIds
                 \/ tasks'[f].st = "done" /\ tasks'[f].data = ErrorData("account id failed")]_vars

\* get_account_id made its one request for an id cached CACHE_EXPIRE_HOURS ago
C11_Witness ==
    \E f \in DOMAIN tasks :
        /\ tasks[f].st \in {"lookup", "done"}
        /\ tasks[f].calls = 1
        /\ tasks[f].cache_id # ""
        /\ tasks[f].cache_time >= 0
        /\ now - tasks[f].cache_time >= CACHE_EXPIRE_HOURS

\* C12: cache_update_time is the time the id was obtained from the remote API:
\* the cache write-back of a query whose id was served from the cache (no
\* request made) leaves every account's cache_update_time as it was
C12_CacheHitKeepsTime ==
    [][\A f \in DOMAIN tasks :
          (TaskCacheWrite(f) /\ tasks[f].calls = 0) =>
              \A i \in DOMAIN accounts :
                  accounts'[i].cache_update_time = accounts[i].cache_update_time]_vars

\* C13: a call of query_usage_single for an account with a non-empty account_id
\* goes from reading the account straight to the usage request (or to the
\* credential error), makes no request to the accounts endpoint, changes no
\* registry entry, and its usage result carries the explicit account_id
C13_ExplicitIdNoResolution ==
    [][\A f \in DOMAIN tasks :
          /\ (/\ Unread(tasks, f)
              /\ TaskAccount(f).account_id # ""
              /\ f \in DOMAIN tasks'
              /\ ~Unread(tasks', f)) =>
                 /\ tasks'[f].st \in {"usage", "done"}
                 /\ tasks'[f].st = "done" => tasks'[f].data = ErrorData("no credentials")
                 /\ tasks'[f].account_id = TaskAccount(f).account_id
                 /\ tasks'[f].calls = 0
                 /\ accounts' = accounts
          /\ (/\ tasks[f].st = "usage"
              /\ f \in DOMAIN tasks'
              /\ tasks'[f] # tasks[f]) =>
                 /\ tasks'[f].st = "done"
                 /\ tasks'[f].calls = tasks[f].calls
                 /\ accounts' = accounts
                 /\ tasks'[f].data.shape = "usage" =>
                        tasks'[f].data.account_id = tasks[f].account_id]_vars

\* the query of account A, whose account_id is set, returned usage for that id
\* without a request for the id and with A's cache fields still empty, while
\* the id of account C was resolved and cached
C13_Witness ==
    /\ \E f \in DOMAIN tasks :
           /\ tasks[f].st = "done"
           /\ tasks[f].name = "A"
           /\ tasks[f].calls = 0
           /\ tasks[f].data.shape = "usage"
           /\ tasks[f].data.account_id = accounts[1].account_id
    /\ accounts[1].account_id # ""
    /\ accounts[1].account_id_cache = ""
    /\ accounts[1].cache_update_time = NoTime
    /\ accounts[3].account_id_cache # ""

\* C14: a process start after closeEvent saved the config loads a config
\* equal to the saved one: the same account list in the same order and the
\* same proxy, refresh interval and request limit
C14_SaveLoadRoundTrip ==
    [][(LoadConfig /\ pc["ui"] = "down") =>
          /\ accounts' = accounts
          /\ settings' = settings]_vars

\* C15: a save_config that changes the tables leaves them holding the whole
\* config it was called with: every row of the config table and one row per
\* account of the list, never a part of them
C15_SaveAllOrNothing ==
    [][(db' # db /\ ~LoadConfig) =>
          db' = [config |-> ConfigRows(settings'), accounts |-> RowsOf(accounts')]]_vars

\* C16: load_config with accounts in the accounts table returns exactly the
\* tables' content, whatever the JSON file holds, and leaves the tables as
\* they are; with no account in the table and a readable JSON file it returns
\* the file's config, and the tables then hold that config and account list
C16_DbAuthoritative ==
    [][LoadConfig =>
          IF db.accounts # <<>>
          THEN /\ RowsOf(accounts') = db.accounts
               /\ ConfigRows(settings') = db.config
               /\ db' = db
          ELSE json_file.state = "ok" =>
                  /\ accounts' = json_file.accounts
                  /\ settings'.proxy = json_file.proxy
                  /\ db'.accounts = RowsOf(accounts')
                  /\ db'.config = ConfigRows(settings')]_vars

\* C17: no two accounts of the registry list have the same name
C17_RegistryNamesUnique ==
    \A i, j \in DOMAIN accounts : i # j => accounts[i].name # accounts[j].name

\* the email + global key mode of an account is filled in
KeyMode(a) == a.email # "" /\ a.key # ""

\* the API token mode of an account is filled in
TokenMode(a) == a.api_token # ""

\* C18: every account of the registry has exactly one credential mode filled
\* in: email and key, or the API token, and not both
C18_OneCredentialMode ==
    \A i \in DOMAIN accounts : KeyMode(accounts[i]) # TokenMode(accounts[i])

\* the five fields of an account that the caller of add / update supplies
SameInput(a, input) ==
    /\ a.name = input.name
    /\ a.email = input.email
    /\ a.key = input.key
    /\ a.api_token = input.api_token
    /\ a.account_id = input.account_id

\* C19: add_account stores the input with both cache fields empty, whatever
\* cache fields the input carried, as the last entry of the list, and every
\* entry that was in the list stays where it was, unchanged
C19_AddResetsCacheAndAppends ==
    [][\A input \in StoreInputs :
          CM_AddAccount(input) =>
              /\ Len(accounts') = Len(accounts) + 1
              /\ SameInput(accounts'[Len(accounts')], input)
              /\ accounts'[Len(accounts')].account_id_cache = ""
              /\ accounts'[Len(accounts')].cache_update_time = NoTime
              /\ \A i \in DOMAIN accounts : accounts'[i] = accounts[i]]_vars

\* an account was added behind an entry whose id cache is filled: the new entry
\* is last with an empty cache, the first entry still has its cache
C19_Witness ==
    /\ Len(accounts) = 2
    /\ accounts[1].account_id_cache = "rid"
    /\ accounts[1].cache_update_time = 0
    /\ accounts[2].name # accounts[1].name
    /\ accounts[2].account_id_cache = ""
    /\ accounts[2].cache_update_time = NoTime
    /\ db.accounts = RowsOf(accounts)

\* C20: update_account with an index inside the list stores the input at that
\* slot with the cache fields of the entry that was there, also when the name
\* changes; every other slot and the length of the list are unchanged
C20_UpdateKeepsSlotCache ==
    [][\A index \in 1..MaxAccounts, input \in StoreInputs :
          (CM_UpdateAccount(index, input) /\ index \in DOMAIN accounts) =>
              /\ Len(accounts') = Len(accounts)
              /\ SameInput(accounts'[index], input)
              /\ accounts'[index].account_id_cache = accounts[index].account_id_cache
              /\ accounts'[index].cache_update_time = accounts[index].cache_update_time
              /\ \A i \in DOMAIN accounts : i # index => accounts'[i] = accounts[i]]_vars

\* the second of two entries carries the fields of a dialog input, a name other
\* than the first entry's and a filled id cache, and the tables hold the list
C20_Witness ==
    /\ Len(accounts) = 2
    /\ accounts[1].account_id_cache = ""
    /\ SameInput(accounts[2], [name |-> "B", email |-> "", key |-> "",
                               api_token |-> "t", account_id |-> "aid"])
    /\ accounts[2].account_id_cache = "rid"
    /\ accounts[2].cache_update_time = 0
    /\ accounts[1].name = "A"
    /\ db.accounts = RowsOf(accounts)

\* C29: when update_all_accounts has finished, the keys of data are the names
\* of the accounts the call was run over; run over an empty registry, the call
\* leaves data empty
C29_SnapshotKeysAreRunNames ==
    [][\A t \in Threads :
          /\ RA_Stamp(t) => DOMAIN data' = DOMAIN ra[t].results
          /\ (RA_Submit(t) /\ accounts = <<>>) => data' = EmptyMap]_vars

\* C30: when the account of a query that has resolved its id is no longer in
\* the registry under its name, the cache update is dropped and the query goes
\* on to the usage request: it does not end with a result of its own here
C30_DeletedAccountQueryContinues ==
    [][\A f \in TaskIds :
          (/\ TaskLookup(f)
           /\ \A i \in DOMAIN accounts : accounts[i].name # tasks[f].name)
          => /\ tasks'[f].st = "usage"
             /\ accounts' = accounts]_vars

\* C21: with a single refresh requested, the wait loop's next check ends the
\* wait without sleeping again, and the loop iteration that follows calls
\* update_single_account for the requested name and not update_all_accounts
C21_RequestEndsWait ==
    [][/\ (Sched_Wait /\ target_account # NoneVal) => pc'["sched"] = "top"
       /\ (Sched_Top /\ is_running /\ target_account # NoneVal) =>
              /\ pc'["sched"] = "s_find"
              /\ sa'.account_name = target_account]_vars

\* after a full refresh of both accounts the loop is about to refresh B alone
C21_Witness ==
    /\ pc["sched"] = "s_find"
    /\ sa.account_name = "B"
    /\ target_account = "B"
    /\ DOMAIN data = {"A", "B"}
    /\ ra["sched"] = NoCall

\* C22: single refreshes do not postpone the full refresh for ever: once a full
\* refresh has ended, and unless the thread is stopped, update_all_accounts is
\* called again, however many single refreshes are requested
C22_FullRefreshRecurs ==
    (pc["sched"] = "emit_all") ~> (pc["sched"] = "ra_submit" \/ ~is_running)

\* C23: an exception raised inside the loop body of RefreshThread.run becomes
\* an error_signal and the loop goes back to its top; run() returns only with
\* is_running false, which only stop() sets
C23_ExceptionKeepsLoop ==
    [][/\ (Sched_EmitSingle /\ target_account = NoneVal) =>
              /\ event'.sig = "error"
              /\ pc'["sched"] = "top"
              /\ is_running' = is_running
       /\ pc'["sched"] = "exited" => ~is_running'
       /\ (is_running /\ ~is_running') => StopRefreshThread]_vars

\* the emit of a single refresh raised, the error was signalled and the loop is
\* at its top again, still running
C23_Witness ==
    /\ event.sig = "error"
    /\ pc["sched"] = "top"
    /\ is_running

\* C24: once stop() has set is_running to false, the loop test starts no
\* refresh and ends run(), the wait loop's next check ends the wait, a refresh
\* that is running is carried to its end, stop() returns only when run() has
\* returned, and with refresh calls that return run() does return
C24_StopEndsLoop ==
    /\ [][/\ (~is_running /\ Sched_Top) => pc'["sched"] = "exited"
          /\ (~is_running /\ Sched_Wait) => pc'["sched"] = "top"
          /\ (~is_running /\ pc'["sched"] \in {"ra_submit", "s_find"}) =>
                 pc'["sched"] = pc["sched"]
          /\ StopWait => pc["sched"] = "exited"]_vars
    /\ (pc["ui"] = "stop_wait") ~> (pc["ui"] = "stop_wait" /\ pc["sched"] = "exited")

\* stop() has returned after the thread had completed a full refresh
C24_Witness ==
    /\ pc["ui"] = "ready"
    /\ pc["sched"] = "off"
    /\ ~is_running
    /\ DOMAIN data = {"A", "B"}

\* C25: refresh_single_account can be called with any registered name whatever
\* request is pending and leaves that name as the pending request, the same
\* name included; the loop starts a single refresh only at its top and for the
\* name pending then, and the end of that refresh clears the pending request
C25_RequestOverwrites ==
    /\ [](\A n \in RegistryNames :
             (UIReady /\ pc["sched"] # "off") =>
                 ENABLED (ClickAccount(n) /\ target_account' = n))
    /\ [][/\ \A n \in Names : ClickAccount(n) => target_account' = n
          /\ (pc'["sched"] = "s_find" /\ pc["sched"] # "s_find") =>
                 /\ Sched_Top
                 /\ target_account # NoneVal
                 /\ sa'.account_name = target_account
          /\ Sched_ClearTarget => target_account' = NoneVal]_vars

\* the single refresh of B is querying while B is still the pending request
C25_Witness ==
    /\ pc["sched"] = "s_query"
    /\ InlineTask \in DOMAIN tasks
    /\ tasks[InlineTask].name = "B"
    /\ sa.account_name = "B"
    /\ target_account = "B"

\* C27: update_account_cache writes the cache fields of the slot and then
\* either has started the thread that runs save_config or has itself run
\* save_config on the config with the new cache fields; the thread, when it
\* runs, saves the config as it is then
C27_CacheWriteIsSaved ==
    [][/\ \A i \in 1..MaxAccounts, id \in RemoteIds :
              (CM_UpdateAccountCache(i, id) /\ i \in DOMAIN accounts) =>
                  /\ accounts'[i].account_id_cache = id
                  /\ \/ (pending'.save /\ db' = db)
                     \/ db' = SavedDb(settings, accounts')
       /\ (SaveThread /\ pc["ui"] = "ready") =>
              /\ db' = SavedDb(settings, accounts)
              /\ ~pending'.save]_vars

\* with no config file on disk, the id cache of the only account was written,
\* no save thread is pending and the accounts table holds the row with the cache
C27_Witness ==
    /\ pc["ui"] = "ready"
    /\ json_file = NoFile
    /\ Len(accounts) = 1
    /\ accounts[1].account_id_cache \in RemoteIds
    /\ ~pending.save
    /\ db.accounts = RowsOf(accounts)

\* C28: a save_config call made by add_account whose write to the tables
\* fails returns something else to its caller than a call whose write succeeds
C28_SaveReportsFailure ==
    [][((\E input \in StoreInputs : CM_AddAccount(input))
            /\ db'.accounts # RowsOf(accounts'))
          => SaveConfigReturn(TRUE) # SaveConfigReturn(FALSE)]_vars

\* C26: a save_config call that runs while the mutex is held by another one
\* waits, and the rows a save_config call inserts are the registry list as it
\* was at one moment of the call: at its start or, the UI thread being able to
\* change the list once before it waits for the mutex, at its end
C26_SaveSerializedSnapshot ==
    [][/\ Reg_Save => saver.st = "idle"
       /\ Saver_Insert =>
              \/ saver.rows = RowsOf(saver.start)
              \/ saver.rows = RowsOf(accounts)]_vars

\* C32: query_usage_single on an account with neither email and key nor an API
\* token ends in its first step with the credential error, having made no
\* request for the id and written no cache field; a query that has ended takes
\* no further step, so it makes no usage request either
C32_NoCredentialsNoRequest ==
    [][\A f \in DOMAIN tasks :
          /\ (/\ TaskBegin(f)
              /\ ~KeyMode(TaskAccount(f))
              /\ ~TokenMode(TaskAccount(f))) =>
                 /\ tasks'[f].st = "done"
                 /\ tasks'[f].data = ErrorData("no credentials")
                 /\ tasks'[f].calls = 0
                 /\ accounts' = accounts
                 /\ pending' = pending
          /\ (tasks[f].st = "done" /\ f \in DOMAIN tasks') => tasks'[f] = tasks[f]]_vars

\* the query of account D, which has no credentials and no account id, has
\* ended with the credential error and D's cache fields are empty
C32_Witness ==
    /\ \E f \in DOMAIN tasks :
           /\ tasks[f].st = "done"
           /\ tasks[f].name = "D"
           /\ tasks[f].account_id = ""
           /\ tasks[f].calls = 0
           /\ tasks[f].data = ErrorData("no credentials")
    /\ accounts[4].account_id_cache = ""
    /\ accounts[4].cache_update_time = NoTime

\* the text of an error message contains the part m
Contains(text, m) == \E i \in DOMAIN text : text[i] = m

C38_StampsNeverDecrease ==
    [][\A x \in DOMAIN last_update :
          /\ x \in DOMAIN last_update'
          /\ last_update'[x] >= last_update[x]]_vars

\* a single refresh has stamped A later than the full refresh before it
\* stamped A and B
C38_Witness ==
    /\ pc["sched"] = "s_emit"
    /\ sa.account_name = "A"
    /\ DOMAIN last_update = {"A", "B"}
    /\ last_update["B"] > 0
    /\ last_update["A"] > last_update["B"]

\* C34: every single_update_signal event carries the name
\* update_single_account was just called with and the result that call
\* returned for it, whatever on_account_click and refresh_data do to
\* target_account while that refresh is running
C34_EventCarriesRefreshedName ==
    [][(Sched_EmitSingle /\ event'.sig = "single") =>
          /\ event'.name = sa.account_name
          /\ event'.one = IF sa.account_name \in DOMAIN sa.ret
                          THEN sa.ret[sa.account_name] ELSE EmptyDict]_vars

\* C35: a request made by refresh_single_account(x) that the loop has not
\* picked up yet (made in the wait loop, during a full refresh, or during a
\* single refresh of another account) is served: unless another request
\* replaces it or the thread is stopped, update_single_account(x) is called
C35_RequestNotLost ==
    \A x \in Names :
        (/\ target_account = x
         /\ pc["sched"] \notin {"off", "exited", "s_clear"}
         /\ sa.account_name # x)
        ~> \/ pc["sched"] \in {"s_find", "s_query"} /\ sa.account_name = x
           \/ target_account \in Names \ {x}
           \/ ~is_running

\* C36: the loop of run() comes back to its test only from the wait loop,
\* and leaves the wait loop only when the interval is over, is_running is
\* false or a single request is pending; an iteration that ended in
\* error_signal is no exception (the first iteration follows start())
C36_IterationEndsInWait ==
    [][(pc["sched"] # "top" /\ pc'["sched"] = "top") =>
          \/ pc["sched"] = "off"
          \/ /\ pc["sched"] = "wait"
             /\ \/ ticks >= IntervalTicks
                \/ ~is_running
                \/ target_account # NoneVal]_vars

\* C37: refresh_data called while the refresh thread is in its wait loop
\* leaves the thread in a state from which the wait ends after at most the
\* sleep in progress and the next refresh is a full one
C37_ManualRefreshEndsWait ==
    (UIReady /\ is_running /\ pc["sched"] = "wait") =>
        ENABLED (/\ RefreshData
                 /\ target_account' = NoneVal
                 /\ (ticks' + 1 >= IntervalTicks \/ ~is_running'))

\* C31: the write-back of a resolved id by query_usage_single changes no
\* registry entry other than one named like the queried account, also when
\* accounts were deleted between the lookup by name and the indexed write
C31_CacheWriteHitsQueriedAccount ==
    [][\A f \in TaskIds :
          TaskCacheWrite(f) =>
             /\ Len(accounts') = Len(accounts)
             /\ \A i \in DOMAIN accounts :
                   accounts'[i] # accounts[i] => accounts[i].name = tasks[f].name]_vars

\* C39: a thread holds the snapshot mutex only inside lines 724-728, with
\* none of its queries (the remote calls) still running and its next
\* statement ready to run whatever the state of the ConfigManager mutex; the
\* save thread, while it holds the ConfigManager mutex, can always take its
\* next step whatever the state of the snapshot mutex: no thread waits for
\* one mutex or for the network while it holds the other
C39_LockDiscipline ==
    /\ mutex # "free" =>
          /\ pc[mutex] \in {"ra_update", "ra_stamp"}
          /\ \A f \in DOMAIN tasks : f[1] # mutex
          /\ ENABLED (RA_Update(mutex) \/ RA_Stamp(mutex))
    /\ saver.st # "idle" => ENABLED (Saver_Read \/ Saver_Insert)

\* the refresh thread holds the snapshot mutex after a refresh that resolved
\* an id, while a save thread holds the ConfigManager mutex
C39_Witness ==
    /\ mutex = "sched"
    /\ pc["sched"] = "ra_stamp"
    /\ saver.st = "iter"
    /\ \E i \in DOMAIN accounts : accounts[i].account_id_cache # ""

====
